---- MODULE Spec2Model ----
(***************************************************************************)
(* NetLens: URL resolution followed by a best-effort enrichment step       *)
(* (whois, geoip, tls, dns), as served by the API handler `resolve`        *)
(* (apps/api/main.py), the CLI row function `process` (apps/cli/main.py)   *)
(* and the GUI handler `on_resolve` (apps/gui/main.py).                    *)
(*                                                                         *)
(* Time is discrete; one unit is one second.  A lookup is an opaque        *)
(* blocking call: it returns a value, raises, or never returns, after a    *)
(* duration.  Steps other than a lookup and the bounded q.get take no time.*)
(***************************************************************************)
EXTENDS Integers, Sequences, FiniteSets, TLC

(***************************************************************************)
(* Bounds of the model.                                                    *)
(***************************************************************************)
\* A lookup that returns or raises takes at most its budget plus MaxOver.
MaxOver == 1

\* A CLI batch has at most MaxRows rows.
MaxRows == 2

(***************************************************************************)
(* Program constants.                                                      *)
(***************************************************************************)
\* timeout= of the four _run_with_timeout calls, in seconds.
WhoisBudget == 1
GeoipBudget == 1
TlsBudget == 2
DnsBudget == 1
\* Queue(maxsize=1)
QueueMaxsize == 1
\* socket.setdefaulttimeout(3.0) in get_whois / get_geoip
LookupSockTimeout == 3
\* default ports chosen by normalize_url
HttpsPort == 443
HttpPort == 80
\* urllib: a port above this makes parsed.port raise ValueError
MaxPort == 65535

\* The order of the four _run_with_timeout calls.
Sources == <<"whois", "geoip", "tls", "dns">>
Src == {Sources[i] : i \in 1..Len(Sources)}

Budget(s) ==
    CASE s = "whois" -> WhoisBudget
      [] s = "geoip" -> GeoipBudget
      [] s = "tls" -> TlsBudget
      [] s = "dns" -> DnsBudget

\* get_whois and get_geoip wrap their network call in
\* getdefaulttimeout / setdefaulttimeout(3.0) / finally setdefaulttimeout(prev).
UsesSockDefault(s) == s \in {"whois", "geoip"}

(***************************************************************************)
(* Values: a Python dict is a record [key, val]; {"error": m} is           *)
(* Dict("error", m).  Unset is a slot no value was assigned to.            *)
(***************************************************************************)
Dict(k, v) == [key |-> k, val |-> v]
Unset == Dict("unset", "")
Payload(s) == Dict("data", s)
\* str(e) of the exception a lookup of source s raises
ExcMessage(s) ==
    CASE s = "whois" -> "whois boom"
      [] s = "geoip" -> "geoip boom"
      [] s = "tls" -> "tls boom"
      [] s = "dns" -> "dns boom"
ErrorDict(m) == Dict("error", m)
TimeoutDict == ErrorDict("timeout")

(***************************************************************************)
(* URLs.  A raw URL string is a record of its three textual parts:         *)
(*   scheme: the text before "://" ("" when the string has no "://"),      *)
(*   host:   the hostname text of the authority,                           *)
(*   port:   the text after the host: "" (nothing), ":" (colon, no         *)
(*           digits) or ":" followed by characters.                        *)
(***************************************************************************)
Schemes == {"", "http", "https", "HTTPS", "ftp"}
HostTexts == {"", "example.com", "EXAMPLE.COM", "[::1"}
PortTexts == {"", ":", ":0", ":80", ":443", ":8080", ":65535", ":65536", ":abc"}
Urls == [scheme : Schemes, host : HostTexts, port : PortTexts]

RawEmpty(u) == u.scheme = "" /\ u.host = "" /\ u.port = ""

\* str.lower() on the texts of the model
Lower(t) ==
    CASE t = "HTTPS" -> "https"
      [] t = "EXAMPLE.COM" -> "example.com"
      [] t = "Nombre" -> "nombre"
      [] t = "URL" -> "url"
      [] OTHER -> t

\* int(port, 10) of urllib's SplitResult.port; -1 when the text is no number
PortNumber(t) ==
    CASE t = ":0" -> 0
      [] t = ":80" -> 80
      [] t = ":443" -> 443
      [] t = ":8080" -> 8080
      [] t = ":65535" -> 65535
      [] t = ":65536" -> 65536
      [] OTHER -> -1

None == -1

\* if "://" not in url: url = "http://" + url
EnsureScheme(u) == IF u.scheme = "" THEN [u EXCEPT !.scheme = "http"] ELSE u

\* Does urlparse(url) / parsed.port raise ValueError, and with which message.
ParseError(u) ==
    CASE u.host = "[::1" -> "Invalid IPv6 URL"
      [] u.port \notin {"", ":"} /\ PortNumber(u.port) = -1 ->
            "Port could not be cast to integer value"
      [] u.port \notin {"", ":"} /\ PortNumber(u.port) > MaxPort ->
            "Port out of range 0-65535"
      [] OTHER -> ""

\* parsed.port: None when the URL has no port text or an empty one
ParsedPort(u) == IF u.port \in {"", ":"} THEN None ELSE PortNumber(u.port)

\* scheme = (parsed.scheme or "http").lower(); urlparse lower-cases the scheme
ParsedScheme(u) == Lower(IF u.scheme = "" THEN "http" ELSE Lower(u.scheme))

\* the scheme test of the port selection
IsHttps(scheme) == scheme = "https"

\* Variant: `if parsed.port:` in place of `if parsed.port is not None:`
SelectPortTruthy(u) ==
    IF ParsedPort(u) # None /\ ParsedPort(u) # 0
    THEN ParsedPort(u)
    ELSE IF IsHttps(ParsedScheme(u)) THEN HttpsPort ELSE HttpPort

\* the port selection of normalize_url
SelectPort(u) ==
    IF ParsedPort(u) # None
    THEN ParsedPort(u)
    ELSE IF IsHttps(ParsedScheme(u)) THEN HttpsPort ELSE HttpPort

\* host = parsed.hostname or ""
ParsedHost(u) == Lower(u.host)

\* normalize_url(url) where it returns: <<host, port>>
normalize_url(raw) == <<ParsedHost(EnsureScheme(raw)), SelectPort(EnsureScheme(raw))>>
NormalizeRaises(raw) == ParseError(EnsureScheme(raw)) # ""

(***************************************************************************)
(* Lookup behaviours: what the call of func does inside a worker.          *)
(***************************************************************************)
Behaviours(s) ==
    [kind : {"ret", "raise"}, dur : 0..(Budget(s) + MaxOver)]
        \cup {[kind |-> "hang", dur |-> 0]}

VARIABLES
    caller,        \* "api" | "cli" | "gui": which handler serves the request
    name, url,     \* the request / row
    resolvable,    \* does socket.gethostbyname(host) succeed
    beh,           \* per source: the behaviour of its lookup
    pc,            \* position of the handler
    host, port, ip,\* locals of the handler
    status, detail,\* API answer: 0 (none yet), 200, 400 and the 400 detail
    log,           \* logger.error lines
    rows,          \* rows written to stdout (CLI) / the output widget (GUI)
    resolveCalls,  \* number of calls of resolve_ip
    cur,           \* index in Sources of the _run_with_timeout call in progress
    waiting,       \* the coordinator is inside q.get(timeout=...)
    waited,        \* time spent in the current q.get
    slot,          \* whois_info, geoip_info, tls_info, dns_info
    q,             \* per call: its Queue(maxsize=1)
    wpc,           \* per source: position of the worker thread
    elapsed,       \* per source: time spent inside the lookup's blocking call
    prev,          \* per worker: its local prev_timeout
    sockDefault,   \* socket.getdefaulttimeout(): process-wide
    sockUsers,     \* the workers that have read or written sockDefault
    now,           \* the clock
    enrichStart,   \* the time enrichment began
    startedAt,     \* per source: when its worker was started (None: not yet)
    settledAt,     \* per source: when its slot was assigned (None: not yet)
    resp,          \* the response dict of the API
    stderrJson,    \* the enrichment JSON printed by the CLI
    store,         \* the tables targets, probes, results
    fn,            \* enrich.py: the lookup function being called
    env,           \* what its library and the network do in this call
    lpc,           \* position inside the lookup function
    ret,           \* the mapping the lookup function returned
    attempts,      \* the network attempts the call has made so far
    records,       \* get_dns_records: the local dict `records`
    qt,            \* get_dns_records: index of the next record type
    batch,         \* CLI: the rows csv.reader gives, in order
    rowIdx,        \* CLI: index of the next row _iter_rows reads
    yielded,       \* CLI: the (name, url) pairs _iter_rows has yielded
    exitCode,      \* CLI: what run_resolve returned (None: still running)
    dbAvailable,   \* _DB_AVAILABLE
    job,           \* per request: name, url, what was resolved and computed
    jpc,           \* per request: position in process() / in resolve()
    sess,          \* per request: its SQLAlchemy session
    dbLock         \* the write lock of the database file

vars == <<caller, name, url, resolvable, beh, pc, host, port, ip,
          status, detail, log, rows, resolveCalls, cur, waiting, waited, slot,
          q, wpc, elapsed, prev, sockDefault, sockUsers, now, enrichStart,
          startedAt, settledAt, resp, stderrJson, store,
          fn, env, lpc, ret, attempts, records, qt,
          batch, rowIdx, yielded, exitCode, dbAvailable, job, jpc, sess, dbLock>>

inputVars == <<caller, name, url, resolvable, beh>>
workerVars == <<q, wpc, elapsed, prev, sockDefault, sockUsers, startedAt>>
coordVars == <<cur, waiting, waited, slot, settledAt, enrichStart>>
outVars == <<status, detail, log, rows, resp, stderrJson, store>>
requestVars == <<inputVars, pc, host, port, ip, resolveCalls, workerVars,
                 coordVars, outVars, now>>
lookupVars == <<fn, env, lpc, ret, attempts, records, qt>>
batchVars == <<batch, rowIdx, yielded, exitCode, dbAvailable, job, jpc, sess, dbLock>>

EmptyStore == [targets |-> {}, probes |-> {}, results |-> {}]
NoDetail == [prefix |-> "", msg |-> ""]

\* Everything but the inputs, before the handler runs.
Fresh ==
    /\ pc = "normalize"
    /\ host = "" /\ port = None /\ ip = ""
    /\ status = 0 /\ detail = NoDetail
    /\ log = <<>> /\ rows = <<>>
    /\ resolveCalls = 0
    /\ cur = 1 /\ waiting = FALSE /\ waited = 0
    /\ slot = [s \in Src |-> Unset]
    /\ q = [s \in Src |-> <<>>]
    /\ wpc = [s \in Src |-> "idle"]
    /\ elapsed = [s \in Src |-> 0]
    /\ prev = [s \in Src |-> None]
    /\ sockDefault = None
    /\ sockUsers = {}
    /\ now = 0 /\ enrichStart = None
    /\ startedAt = [s \in Src |-> None]
    /\ settledAt = [s \in Src |-> None]
    /\ resp = [s \in Src |-> Unset]
    /\ stderrJson = <<>>
    /\ store = EmptyStore

(***************************************************************************)
(* The handler up to the enrichment step.                                  *)
(***************************************************************************)
InvalidUrl(m) == [prefix |-> "invalid url: ", msg |-> m]
RawError(m) == [prefix |-> "", msg |-> m]
ResolveErrorMsg == "Name or service not known"
ResolvedIp == "93.184.216.34"

\* Variant: the handler without its host check
HostMissingNever(h) == FALSE

\* `if not host` of the API handler
HostMissing(h) == h = ""

\* normalize_url(url) returns.  The API goes on to its host check; the CLI
\* and the GUI call resolve_ip(host) next, inside the same try.
NormalizeOk ==
    /\ pc = "normalize"
    /\ ~NormalizeRaises(url)
    /\ host' = normalize_url(url)[1]
    /\ port' = normalize_url(url)[2]
    /\ pc' = IF caller = "api" THEN "check_host" ELSE "resolve"
    /\ UNCHANGED <<inputVars, lookupVars, batchVars, ip, resolveCalls, workerVars, coordVars, outVars, now>>

\* What each caller does with an exception raised before enrichment:
\* API: HTTPException(400, detail); CLI: logger.error("Error resolviendo ...");
\* GUI: output.insert("Error: ...").
Abort(d) ==
    /\ pc' = "done"
    /\ status' = IF caller = "api" THEN 400 ELSE status
    /\ detail' = IF caller = "api" THEN d ELSE detail
    /\ log' = IF caller = "cli" THEN Append(log, <<"Error resolviendo", d.msg>>) ELSE log
    /\ rows' = IF caller = "gui" THEN Append(rows, <<"Error", d.msg>>) ELSE rows
    /\ UNCHANGED <<resp, stderrJson, store>>

\* normalize_url(url) raises ValueError.
NormalizeFail ==
    /\ pc = "normalize"
    /\ NormalizeRaises(url)
    /\ Abort(InvalidUrl(ParseError(EnsureScheme(url))))
    /\ UNCHANGED <<inputVars, lookupVars, batchVars, host, port, ip, resolveCalls, workerVars, coordVars, now>>

\* API only: if not host: raise HTTPException(400, "invalid url: missing host")
RejectMissingHost ==
    /\ pc = "check_host"
    /\ HostMissing(host)
    /\ Abort(InvalidUrl("missing host"))
    /\ UNCHANGED <<inputVars, lookupVars, batchVars, host, port, ip, resolveCalls, workerVars, coordVars, now>>

AcceptHost ==
    /\ pc = "check_host"
    /\ ~HostMissing(host)
    /\ pc' = "resolve"
    /\ UNCHANGED <<inputVars, lookupVars, batchVars, host, port, ip, resolveCalls, workerVars, coordVars, outVars, now>>

\* ip = resolve_ip(host) returns.
ResolveOk ==
    /\ pc = "resolve"
    /\ resolvable
    /\ resolveCalls' = resolveCalls + 1
    /\ ip' = ResolvedIp
    /\ pc' = IF caller = "api" THEN "enrich" ELSE "emit"
    /\ enrichStart' = IF caller = "api" THEN now ELSE enrichStart
    /\ UNCHANGED <<inputVars, lookupVars, batchVars, host, port, workerVars, cur, waiting, waited, slot,
                   settledAt, outVars, now>>

\* resolve_ip(host) raises (socket.gaierror).
ResolveFail ==
    /\ pc = "resolve"
    /\ ~resolvable
    /\ resolveCalls' = resolveCalls + 1
    /\ Abort(RawError(ResolveErrorMsg))
    /\ UNCHANGED <<inputVars, lookupVars, batchVars, host, port, ip, workerVars, coordVars, now>>

\* CLI: writer.writerow([name, ip, port, ts]), then the enrichment.
CliWriteRow ==
    /\ pc = "emit"
    /\ caller = "cli"
    /\ rows' = Append(rows, <<name, ip, port>>)
    /\ pc' = "enrich"
    /\ enrichStart' = now
    /\ UNCHANGED <<inputVars, lookupVars, batchVars, host, port, ip, resolveCalls, workerVars, cur, waiting,
                   waited, slot, settledAt, status, detail, log, resp, stderrJson,
                   store, now>>

\* GUI: output.insert(f"{name}, {ip}, {port}"); the GUI does no enrichment.
GuiShowRow ==
    /\ pc = "emit"
    /\ caller = "gui"
    /\ rows' = Append(rows, <<name, ip, port>>)
    /\ pc' = "done"
    /\ UNCHANGED <<inputVars, lookupVars, batchVars, host, port, ip, resolveCalls, workerVars, coordVars,
                   status, detail, log, resp, stderrJson, store, now>>

(***************************************************************************)
(* _run_with_timeout: the coordinator side.                                *)
(***************************************************************************)
\* Variant: one queue created outside _run_with_timeout and used by all calls
QueueShared(s) == Sources[1]

\* q = Queue(maxsize=1) is a local of each call: one queue per source.
QueueOf(s) == s

\* Variant: `except Empty: pass` (the call returns None)
OnEmptyNone == Unset

\* `except Empty: return {"error": "timeout"}`
OnEmpty == TimeoutDict

\* Variant: the handler leaves the enrichment after its first call
NextCallStop(i) == Len(Sources) + 1

\* the statement after a _run_with_timeout call is the next call
NextCall(i) == i + 1

CurSource == Sources[cur]

\* q = Queue(maxsize=1); t = Thread(target=runner, daemon=True); t.start();
\* the coordinator then enters q.get(timeout=timeout).
StartWorker ==
    /\ pc = "enrich"
    /\ ~waiting
    /\ cur <= Len(Sources)
    /\ wpc' = [wpc EXCEPT ![CurSource] = "begin"]
    /\ startedAt' = [startedAt EXCEPT ![CurSource] = now]
    /\ waiting' = TRUE
    /\ waited' = 0
    /\ UNCHANGED <<inputVars, lookupVars, batchVars, pc, host, port, ip, resolveCalls, cur, slot, settledAt,
                   enrichStart, q, elapsed, prev, sockDefault, sockUsers, outVars, now>>

\* q.get(timeout=timeout) returns the item the worker put.
GetValue ==
    /\ pc = "enrich"
    /\ waiting
    /\ q[QueueOf(CurSource)] # <<>>
    /\ slot' = [slot EXCEPT ![CurSource] = Head(q[QueueOf(CurSource)])]
    /\ q' = [q EXCEPT ![QueueOf(CurSource)] = Tail(q[QueueOf(CurSource)])]
    /\ settledAt' = [settledAt EXCEPT ![CurSource] = now]
    /\ cur' = NextCall(cur)
    /\ waiting' = FALSE
    /\ UNCHANGED <<inputVars, lookupVars, batchVars, pc, host, port, ip, resolveCalls, waited, enrichStart,
                   wpc, elapsed, prev, sockDefault, sockUsers, startedAt, outVars, now>>

\* q.get raises Empty once the budget has elapsed with the queue still empty;
\* the thread is left alone.
GetTimeout ==
    /\ pc = "enrich"
    /\ waiting
    /\ q[QueueOf(CurSource)] = <<>>
    /\ waited >= Budget(CurSource)
    /\ slot' = [slot EXCEPT ![CurSource] = OnEmpty]
    /\ settledAt' = [settledAt EXCEPT ![CurSource] = now]
    /\ cur' = NextCall(cur)
    /\ waiting' = FALSE
    /\ UNCHANGED <<inputVars, lookupVars, batchVars, pc, host, port, ip, resolveCalls, waited, enrichStart,
                   workerVars, outVars, now>>

\* After the four calls: the API builds resp, the CLI prints the JSON on stderr.
BuildOutput ==
    /\ pc = "enrich"
    /\ ~waiting
    /\ cur > Len(Sources)
    /\ resp' = IF caller = "api" THEN slot ELSE resp
    /\ stderrJson' = IF caller = "cli" THEN Append(stderrJson, slot) ELSE stderrJson
    /\ pc' = "persist"
    /\ UNCHANGED <<inputVars, lookupVars, batchVars, host, port, ip, resolveCalls, workerVars, coordVars,
                   status, detail, log, rows, store, now>>

(***************************************************************************)
(* The worker thread of one call: runner() and the lookup it calls.        *)
(***************************************************************************)
\* prev_timeout = socket.getdefaulttimeout()   (get_whois, get_geoip)
WorkerSaveTimeout(s) ==
    /\ wpc[s] = "begin"
    /\ UsesSockDefault(s)
    /\ prev' = [prev EXCEPT ![s] = sockDefault]
    /\ sockUsers' = sockUsers \cup {s}
    /\ wpc' = [wpc EXCEPT ![s] = "saved"]
    /\ UNCHANGED <<inputVars, lookupVars, batchVars, pc, host, port, ip, resolveCalls, coordVars, outVars,
                   q, elapsed, sockDefault, startedAt, now>>

\* socket.setdefaulttimeout(3.0), then the blocking network call begins
WorkerSetTimeout(s) ==
    /\ wpc[s] = "saved"
    /\ sockDefault' = LookupSockTimeout
    /\ wpc' = [wpc EXCEPT ![s] = "net"]
    /\ UNCHANGED <<inputVars, lookupVars, batchVars, pc, host, port, ip, resolveCalls, coordVars, outVars,
                   q, elapsed, prev, sockUsers, startedAt, now>>

\* get_tls_info, get_dns_records: the blocking call begins at once
WorkerCall(s) ==
    /\ wpc[s] = "begin"
    /\ ~UsesSockDefault(s)
    /\ wpc' = [wpc EXCEPT ![s] = "net"]
    /\ UNCHANGED <<inputVars, lookupVars, batchVars, pc, host, port, ip, resolveCalls, coordVars, outVars,
                   q, elapsed, prev, sockDefault, sockUsers, startedAt, now>>

\* Has the blocking call of s come to its end (returned or raised)?
CallEnded(s) == beh[s].kind # "hang" /\ elapsed[s] >= beh[s].dur

\* The lookup returns or raises; `finally: socket.setdefaulttimeout(prev_timeout)`
WorkerEndCall(s) ==
    /\ wpc[s] = "net"
    /\ CallEnded(s)
    /\ sockDefault' = IF UsesSockDefault(s) THEN prev[s] ELSE sockDefault
    /\ wpc' = [wpc EXCEPT ![s] = "put"]
    /\ UNCHANGED <<inputVars, lookupVars, batchVars, pc, host, port, ip, resolveCalls, coordVars, outVars,
                   q, elapsed, prev, sockUsers, startedAt, now>>

\* Variant: the runner wraps whatever the lookup did as an error
RunnerItemWrapsAll(s) == ErrorDict(ExcMessage(s))

\* runner(): q.put(func(...)) or, on Exception e, q.put({"error": str(e)})
RunnerItem(s) ==
    IF beh[s].kind = "ret" THEN Payload(s) ELSE ErrorDict(ExcMessage(s))

\* Variant: runner() has a second q.put after the first
AfterPutAgain == "put"

\* runner() returns after its one q.put: the thread is over
AfterPut == "done"

\* q.put(item) blocks while the queue is full
WorkerPut(s) ==
    /\ wpc[s] = "put"
    /\ Len(q[QueueOf(s)]) < QueueMaxsize
    /\ q' = [q EXCEPT ![QueueOf(s)] = Append(q[QueueOf(s)], RunnerItem(s))]
    /\ wpc' = [wpc EXCEPT ![s] = AfterPut]
    /\ UNCHANGED <<inputVars, lookupVars, batchVars, pc, host, port, ip, resolveCalls, coordVars, outVars,
                   elapsed, prev, sockDefault, sockUsers, startedAt, now>>

(***************************************************************************)
(* Time.  A second passes only while the coordinator is blocked in q.get   *)
(* with budget left or a lookup is in its blocking call; every other step  *)
(* is taken before the clock moves.                                        *)
(***************************************************************************)
WorkerBlocked(s) ==
    \/ wpc[s] \in {"idle", "done"}
    \/ wpc[s] = "net" /\ ~CallEnded(s)
    \/ wpc[s] = "put" /\ Len(q[QueueOf(s)]) >= QueueMaxsize

CoordBlocked ==
    \/ pc = "done"
    \/ /\ pc = "enrich"
       /\ waiting
       /\ q[QueueOf(CurSource)] = <<>>
       /\ waited < Budget(CurSource)

Pending ==
    \/ pc = "enrich" /\ waiting
    \/ \E s \in Src : wpc[s] = "net" /\ beh[s].kind # "hang" /\ ~CallEnded(s)

Tick ==
    /\ CoordBlocked
    /\ \A s \in Src : WorkerBlocked(s)
    /\ Pending
    /\ now' = now + 1
    /\ waited' = IF pc = "enrich" /\ waiting THEN waited + 1 ELSE waited
    /\ elapsed' = [s \in Src |->
                     IF wpc[s] = "net" /\ beh[s].kind # "hang"
                     THEN elapsed[s] + 1 ELSE elapsed[s]]
    /\ UNCHANGED <<inputVars, lookupVars, batchVars, pc, host, port, ip, resolveCalls, cur, waiting, slot,
                   settledAt, enrichStart, q, wpc, prev, sockDefault, sockUsers,
                   startedAt, outVars>>

(***************************************************************************)
(* Persistence (best effort) and the return of the handler.                *)
(***************************************************************************)
\* session.query(Target).filter(name == ..., url == ...).first()
FindTarget(st, n, u) == {t \in st.targets : t.name = n /\ t.url = u}

NewId(rowset) == Cardinality(rowset) + 1

\* The rows one committed cycle leaves in the store.
Committed(st, n, u, i, p, e) ==
    LET found == FindTarget(st, n, u)
        tid == IF found = {} THEN NewId(st.targets)
               ELSE (CHOOSE t \in found : \A o \in found : t.id <= o.id).id
        pid == NewId(st.probes)
    IN  [targets |-> IF found = {}
                     THEN st.targets \cup {[id |-> tid, name |-> n, url |-> u]}
                     ELSE st.targets,
         probes |-> st.probes \cup {[id |-> pid, target_id |-> tid]},
         results |-> st.results \cup
                     {[id |-> NewId(st.results), probe_id |-> pid, ip |-> i,
                       port |-> p, enrich |-> e]}]

\* The persistence block runs to session.commit(); the handler returns.
PersistCommit ==
    /\ pc = "persist"
    /\ store' = Committed(store, name, url, ip, port, slot)
    /\ status' = IF caller = "api" THEN 200 ELSE status
    /\ pc' = "done"
    /\ UNCHANGED <<inputVars, lookupVars, batchVars, host, port, ip, resolveCalls, workerVars, coordVars,
                   detail, log, rows, resp, stderrJson, now>>

\* A step of the persistence block raises: logger.error("DB persist failed")
PersistFail ==
    /\ pc = "persist"
    /\ log' = Append(log, <<"DB persist failed", name>>)
    /\ status' = IF caller = "api" THEN 200 ELSE status
    /\ pc' = "done"
    /\ UNCHANGED <<inputVars, lookupVars, batchVars, host, port, ip, resolveCalls, workerVars, coordVars,
                   detail, rows, resp, stderrJson, store, now>>

\* _DB_AVAILABLE is false: the block is skipped
PersistSkip ==
    /\ pc = "persist"
    /\ status' = IF caller = "api" THEN 200 ELSE status
    /\ pc' = "done"
    /\ UNCHANGED <<inputVars, lookupVars, batchVars, host, port, ip, resolveCalls, workerVars, coordVars,
                   detail, log, rows, resp, stderrJson, store, now>>

(***************************************************************************)
(* The four lookup functions of enrich.py, each called once with an        *)
(* environment that fixes what its library and the network do.             *)
(***************************************************************************)
RecordTypes == <<"A", "AAAA", "MX", "TXT">>
TypeSet == {RecordTypes[i] : i \in 1..Len(RecordTypes)}

\* Python values inside the returned mappings.
Str(s) == [str |-> s]
List(xs) == [list |-> xs]
NoneValue == [none |-> TRUE]
TrueValue == [bool |-> TRUE]
ErrorMap(m) == [error |-> Str(m)]

NoQueries == [t \in TypeSet |-> "unused"]
NoRecords == [t \in TypeSet |-> List(<<>>)]

\* lib: the optional library can be imported.  call: what the library call
\* does (whois.whois, lookup_rdap; the verified TLS handshake; the set-up
\* of the DNS resolver).  fallback: what the unverified TLS handshake does.
\* query: what resolver.resolve does for each record type.
LibraryEnvs ==
    {[lib |-> l, call |-> c, fallback |-> "unused", query |-> NoQueries] :
        l \in BOOLEAN, c \in {"data", "nodata", "raise"}}
TlsEnvs ==
    {[lib |-> TRUE, call |-> c, fallback |-> f, query |-> NoQueries] :
        c \in {"ok", "expired", "badcert", "raise"},
        f \in {"cert", "emptycert", "raise"}}
DnsEnvs ==
    {[lib |-> l, call |-> c, fallback |-> "unused", query |-> qy] :
        l \in BOOLEAN, c \in {"ok", "raise"},
        qy \in [TypeSet -> {"records", "norecords", "raise"}]}
EnvsOf(f) ==
    CASE f \in {"whois", "geoip"} -> LibraryEnvs
      [] f = "tls" -> TlsEnvs
      [] f = "dns" -> DnsEnvs

\* return {"error": f"Dependencia no disponible: ..."}
ImportErrorMap(f) ==
    CASE f = "whois" -> ErrorMap("Dependencia no disponible: whois")
      [] f = "geoip" -> ErrorMap("Dependencia no disponible: ipwhois")
      [] f = "dns" -> ErrorMap("Dependencia no disponible: dnspython")

\* The message of the function's last `except Exception as e`.
FailMessage(f) ==
    CASE f = "whois" -> "WHOIS fallo"
      [] f = "geoip" -> "GeoIP fallo"
      [] f = "tls" -> "TLS fallo"
      [] f = "dns" -> "DNS fallo"

\* An exception escapes the function.
OuterExceptReraises(f) == [pc |-> "raised", ret |-> NoneValue]

\* except Exception as e: return {"error": f"... fallo: {e}"}
OuterExcept(f) == [pc |-> "return", ret |-> ErrorMap(FailMessage(f))]

\* The mapping get_whois / get_geoip builds from what the library returned;
\* a field the library did not give is None.
LibraryFields(f, c) ==
    LET v == IF c = "data" THEN Str("value") ELSE NoneValue
    IN  IF f = "whois"
        THEN [registrar |-> v, creation_date |-> v, expiration_date |-> v]
        ELSE [country |-> v, organization |-> v]

\* _extract_cert_fields: cert_dict.get(...) is None on an empty dict.
ExtractCertFields(cert) ==
    LET v == IF cert = "cert" THEN Str("value") ELSE NoneValue
    IN  [issuer |-> v, notAfter |-> v]

\* info["unverified"] = True
MarkUnverified(info) ==
    [issuer |-> info.issuer, notAfter |-> info.notAfter, unverified |-> TrueValue]

\* Every failure of the verified handshake goes to the unverified attempt.
HandledByOtherAlways(c) == "other"

\* Which except clause of get_tls_info takes the failure of the verified
\* handshake: ssl.SSLCertVerificationError, or the general Exception.
HandledBy(c) == IF c \in {"expired", "badcert"} THEN "verification" ELSE "other"

\* "expired" in msg: the expired certificate has a message of its own.
VerificationErrorMap(c) ==
    IF c = "expired" THEN ErrorMap("TLS certificado expirado")
    ELSE ErrorMap("TLS verificacion fallo")

\* A failed query gives None.
QueryResultNone(t, o) ==
    IF o = "records" THEN List(<<t>>)
    ELSE IF o = "raise" THEN NoneValue ELSE List(<<>>)

\* query(qtype): the texts of the answers; [] when resolver.resolve raises
\* (no answer, no such domain, timeout, ...).
QueryResult(t, o) == IF o = "records" THEN List(<<t>>) ELSE List(<<>>)

Attempt(w, ok) == [what |-> w, ok |-> ok]

LookupIdle ==
    /\ fn = "whois"
    /\ env = [lib |-> TRUE, call |-> "data", fallback |-> "unused", query |-> NoQueries]
    /\ lpc = "off"
    /\ ret = NoneValue
    /\ attempts = <<>>
    /\ records = NoRecords
    /\ qt = 1

\* import whois / from ipwhois import IPWhois / import dns.resolver raises
ImportFails ==
    /\ lpc = "import"
    /\ ~env.lib
    /\ ret' = ImportErrorMap(fn)
    /\ lpc' = "return"
    /\ UNCHANGED <<requestVars, batchVars, fn, env, attempts, records, qt>>

ImportOk ==
    /\ lpc = "import"
    /\ env.lib
    /\ lpc' = IF fn = "dns" THEN "setup" ELSE "call"
    /\ UNCHANGED <<requestVars, batchVars, fn, env, ret, attempts, records, qt>>

\* whois.whois(domain) / IPWhois(ip).lookup_rdap(...) returns
LibraryCallReturns ==
    /\ lpc = "call"
    /\ fn \in {"whois", "geoip"}
    /\ env.call # "raise"
    /\ attempts' = Append(attempts, Attempt(fn, TRUE))
    /\ ret' = LibraryFields(fn, env.call)
    /\ lpc' = "return"
    /\ UNCHANGED <<requestVars, batchVars, fn, env, records, qt>>

\* ... or raises, and the outer except answers
LibraryCallRaises ==
    /\ lpc = "call"
    /\ fn \in {"whois", "geoip"}
    /\ env.call = "raise"
    /\ attempts' = Append(attempts, Attempt(fn, FALSE))
    /\ ret' = OuterExcept(fn).ret
    /\ lpc' = OuterExcept(fn).pc
    /\ UNCHANGED <<requestVars, batchVars, fn, env, records, qt>>

\* get_tls_info: the verified handshake succeeds
TlsVerified ==
    /\ lpc = "call"
    /\ fn = "tls"
    /\ env.call = "ok"
    /\ attempts' = Append(attempts, Attempt("verified", TRUE))
    /\ ret' = ExtractCertFields("cert")
    /\ lpc' = "return"
    /\ UNCHANGED <<requestVars, batchVars, fn, env, records, qt>>

\* except ssl.SSLCertVerificationError: an error mapping, no second attempt
\* (the message is "TLS verificación falló: ..." in the source)
TlsVerificationError ==
    /\ lpc = "call"
    /\ fn = "tls"
    /\ env.call # "ok"
    /\ HandledBy(env.call) = "verification"
    /\ attempts' = Append(attempts, Attempt("verified", FALSE))
    /\ ret' = VerificationErrorMap(env.call)
    /\ lpc' = "return"
    /\ UNCHANGED <<requestVars, batchVars, fn, env, records, qt>>

\* except Exception: go on to the unverified handshake
TlsOtherError ==
    /\ lpc = "call"
    /\ fn = "tls"
    /\ env.call # "ok"
    /\ HandledBy(env.call) = "other"
    /\ attempts' = Append(attempts, Attempt("verified", FALSE))
    /\ lpc' = "fallback"
    /\ UNCHANGED <<requestVars, batchVars, fn, env, ret, records, qt>>

TlsFallbackOk ==
    /\ lpc = "fallback"
    /\ env.fallback # "raise"
    /\ attempts' = Append(attempts, Attempt("unverified", TRUE))
    /\ ret' = MarkUnverified(ExtractCertFields(env.fallback))
    /\ lpc' = "return"
    /\ UNCHANGED <<requestVars, batchVars, fn, env, records, qt>>

\* except Exception: return {"error": f"TLS fallo: {e}"}
TlsFallbackFails ==
    /\ lpc = "fallback"
    /\ env.fallback = "raise"
    /\ attempts' = Append(attempts, Attempt("unverified", FALSE))
    /\ ret' = ErrorMap(FailMessage("tls"))
    /\ lpc' = "return"
    /\ UNCHANGED <<requestVars, batchVars, fn, env, records, qt>>

\* get_dns_records: dns.resolver.Resolver() raises (the outer except)
DnsSetupFails ==
    /\ lpc = "setup"
    /\ env.call = "raise"
    /\ ret' = OuterExcept(fn).ret
    /\ lpc' = OuterExcept(fn).pc
    /\ UNCHANGED <<requestVars, batchVars, fn, env, attempts, records, qt>>

\* records = {"A": [], "AAAA": [], "MX": [], "TXT": []}; resolver ready
DnsSetupOk ==
    /\ lpc = "setup"
    /\ env.call = "ok"
    /\ records' = NoRecords
    /\ qt' = 1
    /\ lpc' = "query"
    /\ UNCHANGED <<requestVars, batchVars, fn, env, ret, attempts>>

\* for t in ("A", "AAAA", "MX", "TXT"): records[t] = query(t)
DnsQuery ==
    /\ lpc = "query"
    /\ qt <= Len(RecordTypes)
    /\ LET t == RecordTypes[qt]
       IN  /\ records' = [records EXCEPT ![t] = QueryResult(t, env.query[t])]
           /\ attempts' = Append(attempts, Attempt(t, env.query[t] # "raise"))
    /\ qt' = qt + 1
    /\ UNCHANGED <<requestVars, batchVars, fn, env, lpc, ret>>

\* return records
DnsReturn ==
    /\ lpc = "query"
    /\ qt > Len(RecordTypes)
    /\ ret' = records
    /\ lpc' = "return"
    /\ UNCHANGED <<requestVars, batchVars, fn, env, attempts, records, qt>>

(***************************************************************************)
(* The persistence block of resolve() and of process(), statement by       *)
(* statement, for requests that run at the same time on one database.      *)
(***************************************************************************)
Requests == {"r1", "r2"}
Free == "free"

\* The raw URL strings of these requests and rows, and their parts.
UrlOf(t) ==
    CASE t = "https://example.com" ->
            [scheme |-> "https", host |-> "example.com", port |-> ""]
      [] t = "example.com:8080" ->
            [scheme |-> "", host |-> "example.com", port |-> ":8080"]
      [] t = "http://example.com:abc" ->
            [scheme |-> "http", host |-> "example.com", port |-> ":abc"]
      [] t = "http://no-such-host.invalid" ->
            [scheme |-> "http", host |-> "no-such-host.invalid", port |-> ""]
      [] t = "http://" ->
            [scheme |-> "http", host |-> "", port |-> ""]

\* socket.gethostbyname(host): '' stands for INADDR_ANY and resolves.
Resolves(h) == h # "no-such-host.invalid"
IpOf(h) == IF h = "" THEN "0.0.0.0" ELSE ResolvedIp

\* The four values of a finished enrichment step.
Enrichments == {[s \in Src |-> Payload(s)], [s \in Src |-> TimeoutDict]}
NoEnrich == [s \in Src |-> Unset]

\* resp = {"name": ..., "ip": ..., "port": ..., "whois": ..., ...}
Response(n, i, p, e) == [name |-> n, ip |-> i, port |-> p, enrich |-> e]
NoAnswer == [status |-> 0, body |-> Response("", "", None, NoEnrich)]

NoJob ==
    [name |-> "", url |-> "", host |-> "", port |-> None, ip |-> "",
     enrich |-> NoEnrich, resp |-> Response("", "", None, NoEnrich),
     answer |-> NoAnswer]

\* tid: target.id once known; pend: rows added and not yet committed;
\* exc: an exception is on its way to the outer except;
\* seen: the ids of the targets the query matched; failed: the steps that
\* raised (both kept for the record).
EmptySess ==
    [tid |-> None, pend |-> EmptyStore, exc |-> FALSE, seen |-> {}, failed |-> {}]

\* Who wrote a log line: the request, or for the CLI the number of the
\* yielded pair being processed (kept for the record).
Tag(j) == IF caller = "cli" THEN <<Len(yielded)>> ELSE <<j>>

BatchIdle ==
    /\ batch = <<>>
    /\ rowIdx = 1
    /\ yielded = <<>>
    /\ exitCode = None
    /\ dbAvailable = TRUE
    /\ job = [j \in Requests |-> NoJob]
    /\ jpc = [j \in Requests |-> "off"]
    /\ sess = [j \in Requests |-> EmptySess]
    /\ dbLock = Free

\* What the request variables keep while a batch or a persistence block runs.
requestRest == <<inputVars, pc, host, port, ip, resolveCalls, workerVars,
                 coordVars, status, detail, resp, now>>
iterVars == <<batch, rowIdx, yielded, exitCode, dbAvailable>>

\* Variant: a failed persistence becomes a 500 answer.
ApiReturnStrict(r, exc) ==
    IF exc THEN [status |-> 500, body |-> Response("", "", None, NoEnrich)]
    ELSE [status |-> 200, body |-> r]

\* return resp (the response_model answer is 200)
ApiReturn(r, exc) == [status |-> 200, body |-> r]

\* The handler is over: the API returns resp; process() returns to the loop.
Leave(j, exc) ==
    /\ jpc' = [jpc EXCEPT ![j] = "done"]
    /\ job' = IF caller = "api"
              THEN [job EXCEPT ![j].answer = ApiReturn(job[j].resp, exc)]
              ELSE job

\* if _DB_AVAILABLE and get_session and ...: (else: nothing is stored)
PersistSkipped(j) ==
    /\ jpc[j] = "persist"
    /\ ~dbAvailable
    /\ Leave(j, FALSE)
    /\ UNCHANGED <<requestRest, lookupVars, iterVars, log, rows, stderrJson,
                   store, sess, dbLock>>

PersistEnter(j) ==
    /\ jpc[j] = "persist"
    /\ dbAvailable
    /\ jpc' = [jpc EXCEPT ![j] = "open"]
    /\ sess' = [sess EXCEPT ![j] = EmptySess]
    /\ UNCHANGED <<requestRest, lookupVars, iterVars, log, rows, stderrJson,
                   store, job, dbLock>>

\* session = get_session()
OpenSession(j) ==
    /\ jpc[j] = "open"
    /\ jpc' = [jpc EXCEPT ![j] = "query"]
    /\ UNCHANGED <<requestRest, lookupVars, iterVars, log, rows, stderrJson,
                   store, job, sess, dbLock>>

\* get_session() raises: outside the inner try, so nothing to close
OpenFails(j) ==
    /\ jpc[j] = "open"
    /\ sess' = [sess EXCEPT ![j].exc = TRUE, ![j].failed = @ \cup {"open"}]
    /\ jpc' = [jpc EXCEPT ![j] = "except"]
    /\ UNCHANGED <<requestRest, lookupVars, iterVars, log, rows, stderrJson,
                   store, job, dbLock>>

\* Variant: a target row is added whether or not one was found
NeedsTargetAlways(found) == TRUE

\* if target is None:
NeedsTarget(found) == found = {}

\* .first(): the row with the lowest id among those that match
FirstOf(found) == CHOOSE t \in found : \A o \in found : t.id <= o.id

\* target = session.query(Target).filter(name == ..., url == ...).first()
\* (a query sees the committed rows)
QueryTarget(j) ==
    /\ jpc[j] = "query"
    /\ LET found == FindTarget(store, job[j].name, job[j].url)
       IN  /\ sess' = [sess EXCEPT
                          ![j].tid = IF found = {} THEN None ELSE FirstOf(found).id,
                          ![j].seen = {t.id : t \in found}]
           /\ jpc' = [jpc EXCEPT ![j] =
                          IF NeedsTarget(found) THEN "add_target" ELSE "add_probe"]
    /\ UNCHANGED <<requestRest, lookupVars, iterVars, log, rows, stderrJson,
                   store, job, dbLock>>

\* target = Target(name, url); session.add(target); session.flush()
\* The INSERT takes the write lock of the database, or waits for it.
AddTarget(j) ==
    /\ jpc[j] = "add_target"
    /\ dbLock \in {Free, j}
    /\ LET tid == NewId(store.targets)
       IN  sess' = [sess EXCEPT
                      ![j].tid = tid,
                      ![j].pend.targets = @ \cup
                          {[id |-> tid, name |-> job[j].name, url |-> job[j].url]}]
    /\ dbLock' = j
    /\ jpc' = [jpc EXCEPT ![j] = "add_probe"]
    /\ UNCHANGED <<requestRest, lookupVars, iterVars, log, rows, stderrJson,
                   store, job>>

\* probe = Probe(target_id=target.id); session.add(probe); session.flush()
AddProbe(j) ==
    /\ jpc[j] = "add_probe"
    /\ dbLock \in {Free, j}
    /\ sess' = [sess EXCEPT ![j].pend.probes = @ \cup
                   {[id |-> NewId(store.probes), target_id |-> sess[j].tid]}]
    /\ dbLock' = j
    /\ jpc' = [jpc EXCEPT ![j] = "add_result"]
    /\ UNCHANGED <<requestRest, lookupVars, iterVars, log, rows, stderrJson,
                   store, job>>

\* result = Result(probe_id=probe.id, ip=ip, port=port, whois=..., ...);
\* session.add(result): the id is the one the flush of commit() gives it,
\* the write lock being held since the flush of the probe
AddResult(j) ==
    /\ jpc[j] = "add_result"
    /\ LET pid == (CHOOSE p \in sess[j].pend.probes : TRUE).id
       IN  sess' = [sess EXCEPT ![j].pend.results = @ \cup
                      {[id |-> NewId(store.results), probe_id |-> pid,
                        ip |-> job[j].ip, port |-> job[j].port,
                        enrich |-> job[j].enrich]}]
    /\ jpc' = [jpc EXCEPT ![j] = "commit"]
    /\ UNCHANGED <<requestRest, lookupVars, iterVars, log, rows, stderrJson,
                   store, job, dbLock>>

\* Variant: the commit keeps what the flushes sent and loses the result
MergeNoResults(st, pend) ==
    [targets |-> st.targets \cup pend.targets,
     probes |-> st.probes \cup pend.probes,
     results |-> st.results]

\* The store after the pending rows of a session are committed.
Merge(st, pend) ==
    [targets |-> st.targets \cup pend.targets,
     probes |-> st.probes \cup pend.probes,
     results |-> st.results \cup pend.results]

\* session.commit()
Commit(j) ==
    /\ jpc[j] = "commit"
    /\ store' = Merge(store, sess[j].pend)
    /\ sess' = [sess EXCEPT ![j].pend = EmptyStore]
    /\ dbLock' = Free
    /\ jpc' = [jpc EXCEPT ![j] = "close"]
    /\ UNCHANGED <<requestRest, lookupVars, iterVars, log, rows, stderrJson, job>>

\* A statement of the inner try raises (the query, a flush, the commit; a
\* flush that waited too long for the write lock): on to the finally.
StepFails(j) ==
    /\ jpc[j] \in {"query", "add_target", "add_probe", "add_result", "commit"}
    /\ sess' = [sess EXCEPT ![j].exc = TRUE, ![j].failed = @ \cup {jpc[j]}]
    /\ jpc' = [jpc EXCEPT ![j] = "close"]
    /\ UNCHANGED <<requestRest, lookupVars, iterVars, log, rows, stderrJson,
                   store, job, dbLock>>

\* finally: session.close(): what was not committed is rolled back and the
\* connection gives the write lock back.  Without an exception on its way
\* the handler is over.
AfterClose(j) ==
    /\ dbLock' = IF dbLock = j THEN Free ELSE dbLock
    /\ IF sess[j].exc
       THEN jpc' = [jpc EXCEPT ![j] = "except"] /\ job' = job
       ELSE Leave(j, FALSE)

CloseSession(j) ==
    /\ jpc[j] = "close"
    /\ sess' = [sess EXCEPT ![j].pend = EmptyStore]
    /\ AfterClose(j)
    /\ UNCHANGED <<requestRest, lookupVars, iterVars, log, rows, stderrJson, store>>

\* session.close() raises: except Exception: pass
CloseFails(j) ==
    /\ jpc[j] = "close"
    /\ sess' = [sess EXCEPT ![j].pend = EmptyStore, ![j].failed = @ \cup {"close"}]
    /\ AfterClose(j)
    /\ UNCHANGED <<requestRest, lookupVars, iterVars, log, rows, stderrJson, store>>

\* except Exception as db_exc: logger.error("DB persist failed ...")
LogPersistFailed(j) ==
    /\ jpc[j] = "except"
    /\ log' = Append(log, <<"DB persist failed", job[j].name>> \o Tag(j))
    /\ Leave(j, TRUE)
    /\ UNCHANGED <<requestRest, lookupVars, iterVars, rows, stderrJson, store,
                   sess, dbLock>>

PersistStep(j) ==
    \/ PersistSkipped(j)
    \/ PersistEnter(j)
    \/ OpenSession(j)
    \/ OpenFails(j)
    \/ QueryTarget(j)
    \/ AddTarget(j)
    \/ AddProbe(j)
    \/ AddResult(j)
    \/ Commit(j)
    \/ StepFails(j)
    \/ CloseSession(j)
    \/ CloseFails(j)
    \/ LogPersistFailed(j)

(***************************************************************************)
(* The CLI batch: run_resolve, _iter_rows and process().                   *)
(***************************************************************************)
CliJob == "r1"

\* A cell of a CSV row: its text, and whether white space surrounds it.
Cell(ws, t) == [ws |-> ws, text |-> t]

\* str.strip()
Strip(c) == c.text

\* Variant: the header is compared as it is written
IsHeaderExact(row) ==
    /\ Len(row) >= 2
    /\ ~row[1].ws /\ row[1].text = "nombre"
    /\ ~row[2].ws /\ row[2].text = "url"

\* len(row) >= 2 and row[0].strip().lower() == "nombre"
\*               and row[1].strip().lower() == "url"
IsHeader(row) ==
    /\ Len(row) >= 2
    /\ Lower(Strip(row[1])) = "nombre"
    /\ Lower(Strip(row[2])) = "url"

RowKinds ==
    { <<>>,
      <<Cell(FALSE, "Nombre"), Cell(TRUE, "URL")>>,
      <<Cell(FALSE, "solo")>>,
      <<Cell(TRUE, "site"), Cell(TRUE, "https://example.com")>>,
      <<Cell(FALSE, "nombre"), Cell(FALSE, "example.com:8080"), Cell(FALSE, "extra")>>,
      <<Cell(FALSE, "bad"), Cell(FALSE, "http://example.com:abc")>>,
      <<Cell(FALSE, "ghost"), Cell(FALSE, "http://no-such-host.invalid")>>,
      <<Cell(FALSE, "nohost"), Cell(FALSE, "http://")>> }

\* _iter_rows is between two rows and process() is not running.
AtRow ==
    /\ caller = "cli"
    /\ exitCode = None
    /\ jpc[CliJob] \in {"off", "done"}
    /\ rowIdx <= Len(batch)

\* if not row: continue
IterSkipEmpty ==
    /\ AtRow
    /\ batch[rowIdx] = <<>>
    /\ rowIdx' = rowIdx + 1
    /\ UNCHANGED <<requestRest, lookupVars, batch, yielded, exitCode, dbAvailable,
                   log, rows, stderrJson, store, job, jpc, sess, dbLock>>

\* the optional header: continue
IterSkipHeader ==
    /\ AtRow
    /\ batch[rowIdx] # <<>>
    /\ IsHeader(batch[rowIdx])
    /\ rowIdx' = rowIdx + 1
    /\ UNCHANGED <<requestRest, lookupVars, batch, yielded, exitCode, dbAvailable,
                   log, rows, stderrJson, store, job, jpc, sess, dbLock>>

\* if len(row) < 2: logger.error("Fila inválida ..."); continue
IterInvalidRow ==
    /\ AtRow
    /\ batch[rowIdx] # <<>>
    /\ ~IsHeader(batch[rowIdx])
    /\ Len(batch[rowIdx]) < 2
    /\ log' = Append(log, <<"Fila invalida", Strip(batch[rowIdx][1])>>)
    /\ rowIdx' = rowIdx + 1
    /\ UNCHANGED <<requestRest, lookupVars, batch, yielded, exitCode, dbAvailable,
                   rows, stderrJson, store, job, jpc, sess, dbLock>>

\* yield row[0].strip(), row[1].strip(); the loop calls process(name, url)
IterYield ==
    /\ AtRow
    /\ batch[rowIdx] # <<>>
    /\ ~IsHeader(batch[rowIdx])
    /\ Len(batch[rowIdx]) >= 2
    /\ LET n == Strip(batch[rowIdx][1])
           u == Strip(batch[rowIdx][2])
       IN  /\ yielded' = Append(yielded, <<n, u>>)
           /\ job' = [job EXCEPT ![CliJob] = [NoJob EXCEPT !.name = n, !.url = u]]
    /\ jpc' = [jpc EXCEPT ![CliJob] = "normalize"]
    /\ sess' = [sess EXCEPT ![CliJob] = EmptySess]
    /\ rowIdx' = rowIdx + 1
    /\ UNCHANGED <<requestRest, lookupVars, batch, exitCode, dbAvailable,
                   log, rows, stderrJson, store, dbLock>>

\* the rows are used up: return 0
ReturnZero ==
    /\ caller = "cli"
    /\ exitCode = None
    /\ jpc[CliJob] \in {"off", "done"}
    /\ rowIdx > Len(batch)
    /\ exitCode' = 0
    /\ UNCHANGED <<requestRest, lookupVars, batch, rowIdx, yielded, dbAvailable,
                   log, rows, stderrJson, store, job, jpc, sess, dbLock>>

\* except Exception as exc: logger.error("Error resolviendo ...")
ProcessExcept ==
    /\ log' = Append(log, <<"Error resolviendo", job[CliJob].name>> \o Tag(CliJob))
    /\ jpc' = [jpc EXCEPT ![CliJob] = "done"]

\* host, port = normalize_url(url)
ProcessNormalize ==
    /\ jpc[CliJob] = "normalize"
    /\ ~NormalizeRaises(UrlOf(job[CliJob].url))
    /\ job' = [job EXCEPT ![CliJob].host = normalize_url(UrlOf(job[CliJob].url))[1],
                          ![CliJob].port = normalize_url(UrlOf(job[CliJob].url))[2]]
    /\ jpc' = [jpc EXCEPT ![CliJob] = "resolve"]
    /\ UNCHANGED <<requestRest, lookupVars, iterVars, log, rows, stderrJson,
                   store, sess, dbLock>>

ProcessNormalizeFails ==
    /\ jpc[CliJob] = "normalize"
    /\ NormalizeRaises(UrlOf(job[CliJob].url))
    /\ ProcessExcept
    /\ UNCHANGED <<requestRest, lookupVars, iterVars, rows, stderrJson,
                   store, job, sess, dbLock>>

\* ip = resolve_ip(host)
ProcessResolve ==
    /\ jpc[CliJob] = "resolve"
    /\ Resolves(job[CliJob].host)
    /\ job' = [job EXCEPT ![CliJob].ip = IpOf(job[CliJob].host)]
    /\ jpc' = [jpc EXCEPT ![CliJob] = "emit"]
    /\ UNCHANGED <<requestRest, lookupVars, iterVars, log, rows, stderrJson,
                   store, sess, dbLock>>

ProcessResolveFails ==
    /\ jpc[CliJob] = "resolve"
    /\ ~Resolves(job[CliJob].host)
    /\ ProcessExcept
    /\ UNCHANGED <<requestRest, lookupVars, iterVars, rows, stderrJson,
                   store, job, sess, dbLock>>

\* writer.writerow([name, ip, port, ts])
ProcessWriteRow ==
    /\ jpc[CliJob] = "emit"
    /\ rows' = Append(rows, <<job[CliJob].name, job[CliJob].ip, job[CliJob].port>>)
    /\ jpc' = [jpc EXCEPT ![CliJob] = "enrich"]
    /\ UNCHANGED <<requestRest, lookupVars, iterVars, log, stderrJson,
                   store, job, sess, dbLock>>

\* the four _run_with_timeout calls: each gives a value
ProcessEnrich ==
    /\ jpc[CliJob] = "enrich"
    /\ \E e \in Enrichments : job' = [job EXCEPT ![CliJob].enrich = e]
    /\ jpc' = [jpc EXCEPT ![CliJob] = "print"]
    /\ UNCHANGED <<requestRest, lookupVars, iterVars, log, rows, stderrJson,
                   store, sess, dbLock>>

\* print(json.dumps(enriched, ensure_ascii=False), file=sys.stderr)
ProcessPrint ==
    /\ jpc[CliJob] = "print"
    /\ stderrJson' = Append(stderrJson, job[CliJob].enrich)
    /\ jpc' = [jpc EXCEPT ![CliJob] = "persist"]
    /\ UNCHANGED <<requestRest, lookupVars, iterVars, log, rows, store, job,
                   sess, dbLock>>

\* json.dumps or print raises (a value that is not JSON; stderr is a
\* closed pipe or a full disk): the except of process()
ProcessPrintFails ==
    /\ jpc[CliJob] = "print"
    /\ ProcessExcept
    /\ UNCHANGED <<requestRest, lookupVars, iterVars, rows, stderrJson,
                   store, job, sess, dbLock>>


(***************************************************************************)
(* Specifications.                                                         *)
(***************************************************************************)
RequestName == "site"

\* Every combination of behaviours of the four lookups.
AllBehaviours ==
    {[s \in Src |-> CASE s = "whois" -> a [] s = "geoip" -> b
                       [] s = "tls" -> c [] s = "dns" -> d] :
        a \in Behaviours("whois"), b \in Behaviours("geoip"),
        c \in Behaviours("tls"), d \in Behaviours("dns")}

\* The lookups of one request all behave alike: the same kind and the same
\* duration relative to the budget (from one second less to MaxOver more).
UniformBehaviours ==
    {[s \in Src |-> [kind |-> k, dur |-> Budget(s) + o]] :
        k \in {"ret", "raise"}, o \in (-1)..MaxOver}
        \cup {[s \in Src |-> [kind |-> "hang", dur |-> 0]]}

\* URLs of the request-level specification.
RequestUrls ==
    {u \in Urls : u.scheme \in {"", "http", "https"} /\ u.port \in {"", ":8080", ":abc"}}

\* The API and the GUI refuse an empty url before the handler body runs
\* (Field(min_length=1); `if not name or not url`).
Init ==
    /\ caller \in {"api", "cli", "gui"}
    /\ name = RequestName
    /\ url \in RequestUrls
    /\ caller \in {"api", "gui"} => ~RawEmpty(url)
    /\ resolvable \in BOOLEAN
    /\ beh \in UniformBehaviours
    /\ Fresh
    /\ LookupIdle
    /\ BatchIdle

WorkerStep(s) ==
    \/ WorkerSaveTimeout(s)
    \/ WorkerSetTimeout(s)
    \/ WorkerCall(s)
    \/ WorkerEndCall(s)
    \/ WorkerPut(s)

\* The enrichment of a request whose persistence block commits.
EnrichStep ==
    \/ StartWorker
    \/ GetValue
    \/ GetTimeout
    \/ BuildOutput
    \/ PersistCommit
    \/ Tick
    \/ \E s \in Src : WorkerStep(s)

Next ==
    \/ NormalizeOk
    \/ NormalizeFail
    \/ RejectMissingHost
    \/ AcceptHost
    \/ ResolveOk
    \/ ResolveFail
    \/ CliWriteRow
    \/ GuiShowRow
    \/ EnrichStep
    \/ PersistFail
    \/ PersistSkip

Spec == Init /\ [][Next]_vars

\* The enrichment step alone: the API handler at the first _run_with_timeout
\* call (url "https://example.com" normalized and resolved), over every
\* combination of lookup behaviours, with a store that accepts the commit.
InitEnrich ==
    /\ caller = "api"
    /\ name = RequestName
    /\ url = [scheme |-> "https", host |-> "example.com", port |-> ""]
    /\ resolvable = TRUE
    /\ beh \in AllBehaviours
    /\ pc = "enrich"
    /\ host = "example.com" /\ port = HttpsPort /\ ip = ResolvedIp
    /\ status = 0 /\ detail = NoDetail
    /\ log = <<>> /\ rows = <<>>
    /\ resolveCalls = 1
    /\ cur = 1 /\ waiting = FALSE /\ waited = 0
    /\ slot = [s \in Src |-> Unset]
    /\ q = [s \in Src |-> <<>>]
    /\ wpc = [s \in Src |-> "idle"]
    /\ elapsed = [s \in Src |-> 0]
    /\ prev = [s \in Src |-> None]
    /\ sockDefault = None
    /\ sockUsers = {}
    /\ now = 0 /\ enrichStart = 0
    /\ startedAt = [s \in Src |-> None]
    /\ settledAt = [s \in Src |-> None]
    /\ resp = [s \in Src |-> Unset]
    /\ stderrJson = <<>>
    /\ store = EmptyStore
    /\ LookupIdle
    /\ BatchIdle

SpecEnrich == InitEnrich /\ [][EnrichStep]_vars

\* The enrichment step with its threads scheduled fairly: the lookups of a
\* request behave alike, or alike but for a whois lookup that never returns.
HandOffBehaviours ==
    UniformBehaviours \cup
        {[b EXCEPT !["whois"] = [kind |-> "hang", dur |-> 0]] : b \in UniformBehaviours}

InitHandOff == InitEnrich /\ beh \in HandOffBehaviours

\* The handler thread and each worker thread get to run, and time passes.
FairHandOff ==
    /\ WF_vars(StartWorker \/ GetValue \/ GetTimeout \/ BuildOutput \/ PersistCommit)
    /\ WF_vars(Tick)
    /\ \A s \in Src : WF_vars(WorkerStep(s))

SpecHandOff == InitHandOff /\ [][EnrichStep]_vars /\ FairHandOff

\* normalize_url alone, over every URL of the model.
InitNorm ==
    /\ caller \in {"api", "cli", "gui"}
    /\ name = RequestName
    /\ url \in Urls
    /\ resolvable = TRUE
    /\ beh = [s \in Src |-> [kind |-> "ret", dur |-> 0]]
    /\ Fresh
    /\ LookupIdle
    /\ BatchIdle

NextNorm == NormalizeOk \/ NormalizeFail

SpecNorm == InitNorm /\ [][NextNorm]_vars

\* One call of one lookup function, over every environment of the model.
InitLookup ==
    /\ caller = "api"
    /\ name = RequestName
    /\ url = [scheme |-> "https", host |-> "example.com", port |-> ""]
    /\ resolvable = TRUE
    /\ beh = [s \in Src |-> [kind |-> "ret", dur |-> 0]]
    /\ Fresh
    /\ fn \in Src
    /\ env \in EnvsOf(fn)
    /\ lpc = IF fn = "tls" THEN "call" ELSE "import"
    /\ ret = NoneValue
    /\ attempts = <<>>
    /\ records = NoRecords
    /\ qt = 1
    /\ BatchIdle

NextLookup ==
    \/ ImportFails
    \/ ImportOk
    \/ LibraryCallReturns
    \/ LibraryCallRaises
    \/ TlsVerified
    \/ TlsVerificationError
    \/ TlsOtherError
    \/ TlsFallbackOk
    \/ TlsFallbackFails
    \/ DnsSetupFails
    \/ DnsSetupOk
    \/ DnsQuery
    \/ DnsReturn

SpecLookup == InitLookup /\ [][NextLookup]_vars

\* Requests of the API that reach the persistence block together, and CLI
\* batches of up to MaxRows rows, on an empty database.
ApiUrls == {"https://example.com", "example.com:8080"}

ApiJobs ==
    {[NoJob EXCEPT !.name = RequestName, !.url = u,
                   !.host = normalize_url(UrlOf(u))[1],
                   !.port = normalize_url(UrlOf(u))[2],
                   !.ip = IpOf(normalize_url(UrlOf(u))[1]),
                   !.enrich = e,
                   !.resp = Response(RequestName, IpOf(normalize_url(UrlOf(u))[1]),
                                     normalize_url(UrlOf(u))[2], e)] :
        u \in ApiUrls, e \in Enrichments}

Batches == UNION {[1..n -> RowKinds] : n \in 0..MaxRows}

InitStore ==
    /\ caller \in {"api", "cli"}
    /\ name = RequestName
    /\ url = [scheme |-> "https", host |-> "example.com", port |-> ""]
    /\ resolvable = TRUE
    /\ beh = [s \in Src |-> [kind |-> "ret", dur |-> 0]]
    /\ Fresh
    /\ LookupIdle
    /\ dbAvailable \in BOOLEAN
    /\ rowIdx = 1
    /\ yielded = <<>>
    /\ exitCode = None
    /\ sess = [j \in Requests |-> EmptySess]
    /\ dbLock = Free
    /\ IF caller = "api"
       THEN /\ batch = <<>>
            /\ job \in [Requests -> ApiJobs]
            /\ jpc = [j \in Requests |-> "persist"]
       ELSE /\ batch \in Batches
            /\ job = [j \in Requests |-> NoJob]
            /\ jpc = [j \in Requests |-> "off"]

NextStore ==
    \/ IterSkipEmpty
    \/ IterSkipHeader
    \/ IterInvalidRow
    \/ IterYield
    \/ ReturnZero
    \/ ProcessNormalize
    \/ ProcessNormalizeFails
    \/ ProcessResolve
    \/ ProcessResolveFails
    \/ ProcessWriteRow
    \/ ProcessEnrich
    \/ ProcessPrint
    \/ ProcessPrintFails
    \/ \E j \in Requests : PersistStep(j)

SpecStore == InitStore /\ [][NextStore]_vars

(***************************************************************************)
(* Properties.                                                             *)
(***************************************************************************)
SumBudgets == WhoisBudget + GeoipBudget + TlsBudget + DnsBudget
MaxBudget == TlsBudget

Settled(s) == slot[s] # Unset
AllSettled == \A s \in Src : Settled(s)
NoWorkerStarted == \A s \in Src : wpc[s] = "idle" /\ startedAt[s] = None

\* What the lookup of s did, seen from its own start.
OnTime(s) == beh[s].kind # "hang" /\ beh[s].dur < Budget(s)
Late(s) == beh[s].kind = "hang" \/ beh[s].dur > Budget(s)
OwnResult(s) ==
    IF beh[s].kind = "ret" THEN Dict("data", s) ELSE Dict("error", ExcMessage(s))

\* C1: whatever the four lookups do (return, raise, never return), the
\* enrichment step is never stuck (the coordinator can take its next step,
\* or it is inside a wait with budget left while time or a worker can move)
\* and is over within the sum of the budgets,
\* it leaves the handler on its normal path (no error answer), and when it
\* is over each of the four slots holds a value.
C1_EnrichAlwaysSettles ==
    /\ pc = "enrich" =>
          /\ \/ ENABLED (StartWorker \/ GetValue \/ GetTimeout \/ BuildOutput)
             \/ /\ waiting
                /\ waited < Budget(CurSource)
                /\ ENABLED (Tick \/ \E s \in Src : WorkerStep(s))
          /\ now - enrichStart <= SumBudgets
          /\ status = 0
    /\ pc \in {"persist", "done"} =>
          /\ DOMAIN slot = Src
          /\ AllSettled
          /\ status \in {0, 200}

\* C1 witness: a finished request with one slot of each kind: a value, a
\* wrapped exception, and two timeouts (one lookup hanging, one too slow).
C1_Witness ==
    /\ pc = "done"
    /\ status = 200
    /\ beh["whois"].kind = "hang" /\ slot["whois"] = TimeoutDict
    /\ beh["geoip"].kind = "raise" /\ slot["geoip"] = Dict("error", ExcMessage("geoip"))
    /\ beh["tls"].kind = "ret" /\ beh["tls"].dur > TlsBudget /\ slot["tls"] = TimeoutDict
    /\ beh["dns"].kind = "ret" /\ slot["dns"] = Dict("data", "dns")

\* C2 (as claimed): once all four slots are settled, the time since the
\* start of the enrichment is at most the largest of the four budgets.
C2_BoundedByMaxBudget ==
    AllSettled => \A s \in Src : settledAt[s] - enrichStart <= MaxBudget

\* C3 (as claimed): every worker is started at the start of the enrichment,
\* before any slot has settled: no worker is still unstarted while another
\* source's slot is settled, and no start is later than the enrichment's.
C3_WorkersStartTogether ==
    pc \in {"enrich", "persist", "done"} /\ enrichStart # None =>
        \A s \in Src :
            /\ startedAt[s] # None => startedAt[s] = enrichStart
            /\ wpc[s] = "idle" => \A r \in Src \ {s} : ~Settled(r)

\* C4: a settled slot holds what its own worker did within the budget,
\* counted from the worker's start: the returned value when the lookup
\* returned in less than the budget, {"error": message} when it raised in
\* less than the budget, {"error": "timeout"} when it took longer or hangs;
\* when it ends exactly at the budget, one of the two; nothing else.
C4_SlotFromOwnWorker ==
    \A s \in Src : Settled(s) =>
        /\ OnTime(s) => slot[s] = OwnResult(s)
        /\ Late(s) => slot[s] = Dict("error", "timeout")
        /\ slot[s] \in {OwnResult(s), Dict("error", "timeout")}
        /\ slot[s] = OwnResult(s) => beh[s].kind # "hang" /\ beh[s].dur <= Budget(s)

\* C4 witness: all three outcomes in one finished enrichment.
C4_Witness ==
    /\ AllSettled
    /\ beh["whois"].kind = "ret" /\ beh["whois"].dur > WhoisBudget
    /\ slot["whois"] = Dict("error", "timeout")
    /\ beh["geoip"].kind = "ret" /\ beh["geoip"].dur < GeoipBudget
    /\ slot["geoip"] = Dict("data", "geoip")
    /\ beh["tls"].kind = "raise" /\ beh["tls"].dur < TlsBudget
    /\ slot["tls"] = Dict("error", "tls boom")
    /\ beh["dns"].kind = "ret" /\ beh["dns"].dur = DnsBudget
    /\ slot["dns"] = Dict("error", "timeout")

\* C5: when a source failed (its lookup raised or its budget ran out), the
\* request is still answered 200 with four fields, the lookups of the other
\* three were all started, and each of their fields is what that source's
\* own lookup gives, whatever the failed source did (the initial states
\* range over every behaviour of the failed source, so the other fields are
\* the same as with that source succeeding).
C5_FailureIsolation ==
    pc = "done" =>
        \A f \in Src : slot[f].key = "error" =>
            /\ status = 200
            /\ DOMAIN resp = Src
            /\ \A r \in Src \ {f} :
                  /\ startedAt[r] # None
                  /\ resp[r] = slot[r]
                  /\ OnTime(r) => resp[r] = OwnResult(r)
                  /\ Late(r) => resp[r] = Dict("error", "timeout")
                  /\ resp[r] \in {OwnResult(r), Dict("error", "timeout")}

\* C5 witness: whois hangs and geoip raises while tls and dns succeed.
C5_Witness ==
    /\ pc = "done"
    /\ status = 200
    /\ beh["whois"].kind = "hang" /\ resp["whois"] = Dict("error", "timeout")
    /\ beh["geoip"].kind = "raise" /\ resp["geoip"] = Dict("error", "geoip boom")
    /\ resp["tls"] = Dict("data", "tls")
    /\ resp["dns"] = Dict("data", "dns")

\* The steps a worker thread can take by itself.
WorkerOwnMove(a, b) ==
    <<a, b>> \in {<<"idle", "begin">>, <<"begin", "saved">>, <<"begin", "net">>,
                  <<"saved", "net">>, <<"net", "put">>, <<"put", "done">>}

\* C6: a timeout only ends the wait: the step that settles a slot leaves
\* every worker and every queue as they are, a worker only ever moves by
\* its own steps (it is never cancelled), a settled slot never changes, an
\* item put into the queue of a settled slot is never taken out, and the
\* response and the persisted rows never change once written.
C6_FireAndForget ==
    [][/\ \A s \in Src :
            /\ Settled(s) => slot'[s] = slot[s]
            /\ Settled(s) => Len(q'[s]) >= Len(q[s])
            /\ wpc'[s] # wpc[s] => WorkerOwnMove(wpc[s], wpc'[s])
            /\ (~Settled(s) /\ slot'[s] = Dict("error", "timeout")) =>
                   wpc' = wpc /\ q' = q
       /\ pc \in {"persist", "done"} => resp' = resp /\ slot' = slot
       /\ store # EmptyStore => store' = store
      ]_vars

\* C6 witness: the request is over and persisted with whois reported as a
\* timeout, and the whois worker has since finished and put its value into
\* its queue, where it stays.
C6_Witness ==
    /\ pc = "done"
    /\ slot["whois"] = Dict("error", "timeout")
    /\ resp["whois"] = Dict("error", "timeout")
    /\ wpc["whois"] = "done"
    /\ q["whois"] = <<Dict("data", "whois")>>
    /\ \E r \in store.results : r.enrich["whois"] = Dict("error", "timeout")

\* C7 (as claimed): no variable is touched by more than one worker: the
\* process-wide default socket timeout is read or written by at most one.
C7_NoSharedState ==
    Cardinality(sockUsers) <= 1

\* C8: the API answers 400 "invalid url: ..." when normalize_url raises or
\* gives an empty host, and 400 with the resolver's own message when
\* resolve_ip raises; otherwise 200.  A 400 ends the request with no worker
\* started and nothing in the store.
C8_ApiRejectsBeforeEnrichment ==
    caller = "api" =>
        /\ status = 400 => pc = "done" /\ NoWorkerStarted /\ store = EmptyStore
        /\ pc = "done" =>
              IF NormalizeRaises(url)
              THEN /\ status = 400
                   /\ detail.prefix = "invalid url: "
                   /\ resolveCalls = 0
              ELSE IF normalize_url(url)[1] = ""
              THEN /\ status = 400
                   /\ detail = [prefix |-> "invalid url: ", msg |-> "missing host"]
                   /\ resolveCalls = 0
              ELSE IF ~resolvable
              THEN /\ status = 400
                   /\ detail = [prefix |-> "", msg |-> ResolveErrorMsg]
              ELSE status = 200

\* C8 witness: "https://" style input: normalize_url returns an empty host
\* and the API has answered 400 invalid url: missing host.
C8_Witness ==
    /\ caller = "api"
    /\ pc = "done"
    /\ ~NormalizeRaises(url)
    /\ host = ""
    /\ status = 400
    /\ detail = [prefix |-> "invalid url: ", msg |-> "missing host"]

\* C9 (as claimed): whoever the caller is, once normalize_url has returned
\* an empty host, resolve_ip is never called, no worker is started and no
\* result row is emitted.
C9_EmptyHostRejectedByAll ==
    (pc # "normalize" /\ ~NormalizeRaises(url) /\ host = "") =>
        /\ resolveCalls = 0
        /\ NoWorkerStarted
        /\ \A i \in 1..Len(rows) : rows[i][1] = "Error"

\* The URL text carries a port number.
HasExplicitPort(u) == u.port \notin {"", ":"}

\* C10: where normalize_url returns, the port is the explicit port of the
\* URL when it has one, else 443 when the scheme is https in any letter
\* case, else 80 (also when the URL had no scheme).
C10_PortSelection ==
    (pc # "normalize" /\ ~NormalizeRaises(url)) =>
        port = IF HasExplicitPort(url) THEN PortNumber(url.port)
               ELSE IF url.scheme \in {"https", "HTTPS"} THEN 443
               ELSE 80

\* C10 witness: an upper-case HTTPS URL without a port was given 443.
C10_Witness ==
    /\ pc # "normalize"
    /\ url.scheme = "HTTPS"
    /\ url.port = ""
    /\ port = 443

\* C11 (as claimed): where normalize_url returns, the port it returns is a
\* positive integer, also for a URL with an explicit port such as ":0".
C11_PortPositive ==
    (pc # "normalize" /\ ~NormalizeRaises(url)) => port >= 1

\* C19 (as claimed): once every lookup worker of the request has finished,
\* the process-wide default socket timeout is what it was before the first
\* of them started (None, no default timeout).
C19_SockDefaultRestored ==
    (\A s \in Src : wpc[s] = "done") => sockDefault = None

IsStr(v) == DOMAIN v = {"str"}
IsList(v) == DOMAIN v = {"list"}
IsErrorMap(m) == DOMAIN m = {"error"} /\ IsStr(m.error)
VerificationFailed == env.call \in {"expired", "badcert"}
Tried(w) == \E i \in 1..Len(attempts) : attempts[i].what = w
EveryAttemptFailed ==
    attempts # <<>> /\ \A i \in 1..Len(attempts) : ~attempts[i].ok

C16_DnsAlwaysFourKeys ==
    (fn = "dns" /\ lpc = "return") =>
        /\ TypeSet \subseteq DOMAIN ret
        /\ \A t \in TypeSet : IsList(ret[t])

\* C16 (amended): when dnspython can be imported and the resolver is set
\* up, the mapping get_dns_records returns has exactly the four keys A,
\* AAAA, MX, TXT, each a list, empty when the domain has no record of that
\* type or that type's query fails; when dnspython is missing or the
\* set-up of the resolver raises, it returns {"error": message} with none
\* of the four keys.
C16_DnsFourKeysUnlessGlobalError ==
    (fn = "dns" /\ lpc = "return") =>
        IF env.lib /\ env.call = "ok"
        THEN /\ DOMAIN ret = TypeSet
             /\ \A t \in TypeSet :
                   /\ IsList(ret[t])
                   /\ ret[t].list = <<>> <=> env.query[t] # "records"
        ELSE /\ IsErrorMap(ret)
             /\ attempts = <<>>

\* C16 witness: records for A, no AAAA record, the MX query fails.
C16_Witness ==
    /\ fn = "dns"
    /\ lpc = "return"
    /\ DOMAIN ret = TypeSet
    /\ env.query["A"] = "records" /\ ret["A"] = List(<<"A">>)
    /\ env.query["AAAA"] = "norecords" /\ ret["AAAA"] = List(<<>>)
    /\ env.query["MX"] = "raise" /\ ret["MX"] = List(<<>>)

LogLines(kind) == {i \in 1..Len(log) : log[i][1] = kind}
PersistFailedLine(j) == <<"DB persist failed", job[j].name>> \o Tag(j)
LoggedPersistFailure(j) == \E i \in 1..Len(log) : log[i] = PersistFailedLine(j)

\* C12 (as claimed): when any step of the persistence block of a finished
\* request failed (the opening of the session, the query, an insert, the
\* commit, the close), a "DB persist failed" line was logged for it, and
\* the API answered 200 with the response computed before persistence.
C12_AnyPersistFailureLogged ==
    \A j \in Requests :
        (jpc[j] = "done" /\ sess[j].failed # {}) =>
            /\ LoggedPersistFailure(j)
            /\ caller = "api" => job[j].answer = [status |-> 200, body |-> job[j].resp]

\* C12 (amended): a failure of the opening of the session, of the query,
\* of an insert or of the commit is logged ("DB persist failed", once) and
\* swallowed; a failure of session.close() is swallowed without a log
\* line.  In every case the API still returns 200 with exactly the
\* response computed before persistence, and the CLI keeps the output row
\* it has written, goes on (it is never stuck) and returns 0 only after
\* every row of the batch was read.
C12_PersistFailureSwallowed ==
    /\ \A j \in Requests :
          jpc[j] = "done" =>
              /\ (sess[j].failed \ {"close"} # {}) <=> LoggedPersistFailure(j)
              /\ Cardinality({i \in 1..Len(log) : log[i] = PersistFailedLine(j)}) <= 1
              /\ caller = "api" =>
                    /\ job[j].answer.status = 200
                    /\ job[j].answer.body =
                          Response(job[j].name, job[j].ip, job[j].port, job[j].enrich)
              /\ (caller = "cli" /\ sess[j].failed # {}) =>
                    /\ rows # <<>>
                    /\ rows[Len(rows)] = <<job[j].name, job[j].ip, job[j].port>>
    /\ (caller = "cli" /\ exitCode = None) => ENABLED NextStore
    /\ exitCode = 0 => rowIdx = Len(batch) + 1

\* C12 witness: a CLI batch of two data rows; the persistence of the first
\* failed at the commit and was logged, the second row was written and
\* stored, and run_resolve returned 0.
C12_Witness ==
    /\ caller = "cli"
    /\ exitCode = 0
    /\ Len(rows) = 2
    /\ log = <<(<<"DB persist failed", rows[1][1], 1>>)>>
    /\ Cardinality(store.results) = 1
    /\ sess[CliJob].failed = {}

\* The rows of the batch by what _iter_rows must do with them.
HeaderNames == {"nombre", "Nombre", "NOMBRE"}
HeaderUrls == {"url", "URL", "Url"}
RowClass(row) ==
    IF Len(row) = 0 THEN "empty"
    ELSE IF Len(row) = 1 THEN "short"
    ELSE IF row[1].text \in HeaderNames /\ row[2].text \in HeaderUrls THEN "header"
    ELSE "data"

RECURSIVE ExpectedPairs(_)
ExpectedPairs(rs) ==
    IF rs = <<>> THEN <<>>
    ELSE LET before == ExpectedPairs(SubSeq(rs, 1, Len(rs) - 1))
             last == rs[Len(rs)]
         IN  IF RowClass(last) = "data"
             THEN Append(before, <<last[1].text, last[2].text>>)
             ELSE before

RowsRead == SubSeq(batch, 1, rowIdx - 1)

\* C14: of the rows read so far, the empty rows and the header rows
\* ("nombre", "url" in any letter case, white space around them or not)
\* gave nothing, each row of one column gave one "Fila inválida" log line
\* and nothing else, and every other row gave one (name, url) pair without
\* the surrounding white space, in the order of the input; no row stops
\* the iteration: the loop is never stuck and ends only after the last row.
C14_IterRowsFilter ==
    caller = "cli" =>
        /\ yielded = ExpectedPairs(RowsRead)
        /\ Cardinality(LogLines("Fila invalida")) =
              Cardinality({i \in 1..Len(RowsRead) : RowClass(RowsRead[i]) = "short"})
        /\ exitCode = None => ENABLED NextStore
        /\ exitCode = 0 => rowIdx = Len(batch) + 1

\* C14 witness: a header "Nombre, URL " followed by the row " site ,
\* https://example.com ": the loop is over with the one stripped pair.
C14_Witness ==
    /\ caller = "cli"
    /\ exitCode = 0
    /\ Len(batch) = 2
    /\ RowClass(batch[1]) = "header"
    /\ batch[1][2].ws
    /\ RowClass(batch[2]) = "data"
    /\ batch[2][1] = Cell(TRUE, "site")
    /\ yielded = <<(<<"site", "https://example.com">>)>>

\* A URL the specification accepts: it parses and has a host.
ValidUrl(t) == ~NormalizeRaises(UrlOf(t)) /\ normalize_url(UrlOf(t))[1] # ""
ResolvesUrl(t) == ValidUrl(t) /\ Resolves(normalize_url(UrlOf(t))[1])

RECURSIVE ResolvedNames(_)
ResolvedNames(pairs) ==
    IF pairs = <<>> THEN <<>>
    ELSE LET before == ResolvedNames(SubSeq(pairs, 1, Len(pairs) - 1))
             last == pairs[Len(pairs)]
         IN  IF ResolvesUrl(last[2]) THEN Append(before, last[1]) ELSE before

\* C13 (as claimed): when run_resolve has returned (always 0), every pair
\* whose URL is invalid (it does not parse, or it has no host) or whose
\* host does not resolve has one "Error resolviendo" log line and no
\* output row, and the output rows are the pairs that resolved, in the
\* order of the input.
C13_BatchOutputIsResolvedRows ==
    (caller = "cli" /\ exitCode = 0) =>
        /\ [i \in 1..Len(rows) |-> rows[i][1]] = ResolvedNames(yielded)
        /\ \A k \in 1..Len(yielded) :
              ~ResolvesUrl(yielded[k][2]) =>
                  Cardinality({i \in LogLines("Error resolviendo") :
                                  log[i][3] = k}) = 1

\* The rows a store has.
RowsOf(st) == st.targets \cup st.probes \cup st.results
PersistedCycles == Len(stderrJson) - Cardinality(LogLines("DB persist failed"))
FinishedApi == caller = "api" /\ \A j \in Requests : jpc[j] = "done"

C20_OneTargetPerNameUrl ==
    \A t1, t2 \in store.targets :
        (t1.name = t2.name /\ t1.url = t2.url) => t1 = t2

\* The committed store is well formed.
ProbesOf(t) == {p \in store.probes : p.target_id = t.id}
ResultsOf(p) == {r \in store.results : r.probe_id = p.id}
StoreWellFormed ==
    /\ \A p \in store.probes :
          /\ \E t \in store.targets : t.id = p.target_id
          /\ Cardinality(ResultsOf(p)) = 1
    /\ \A r \in store.results : \E p \in store.probes : p.id = r.probe_id
    /\ \A t \in store.targets : ProbesOf(t) # {}

\* C21: the persistence of a cycle is all or nothing.  The store changes
\* only by the commit of a session none of whose steps has failed, and a
\* commit adds the probe and the result of the cycle together (with the
\* target when it is new); a step that fails, and the close that follows,
\* leave the store as it was.  Hence at all times each probe is on a
\* target of the store and has exactly one result, each result is on a
\* probe of the store, no target is without a probe, and the store has as
\* many probes as results.
C21_PersistAllOrNothing ==
    /\ [](StoreWellFormed /\ Cardinality(store.probes) = Cardinality(store.results))
    /\ [][/\ store' # store =>
               \E j \in Requests :
                   /\ jpc[j] = "commit" /\ jpc'[j] = "close"
                   /\ sess[j].failed = {} /\ ~sess[j].exc
                   /\ Cardinality(store'.probes) = Cardinality(store.probes) + 1
                   /\ Cardinality(store'.results) = Cardinality(store.results) + 1
          /\ \A j \in Requests :
                (sess'[j].exc /\ (jpc'[j] # jpc[j] \/ sess'[j] # sess[j])) =>
                    /\ store' = store
                    /\ jpc'[j] \in {"close", "except", "done"}
                    /\ jpc'[j] \in {"except", "done"} => sess'[j].pend = EmptyStore
         ]_vars

\* C21 witness: of two requests the first failed at its commit, with its
\* target, probe and result pending, and is over; the second committed:
\* the store holds the rows of the second only.
C21_Witness ==
    /\ caller = "api"
    /\ jpc["r1"] = "done" /\ jpc["r2"] = "done"
    /\ sess["r1"].failed = {"commit"}
    /\ sess["r2"].failed = {}
    /\ Cardinality(store.targets) = 1
    /\ Cardinality(store.probes) = 1
    /\ Cardinality(store.results) = 1
    /\ \A r \in store.results : r.enrich = job["r2"].enrich

\* C22 (as claimed): each pair process() was called with has either an
\* output row or an "Error resolviendo" log line, never both: the rows
\* written and the errors logged are never more than the pairs yielded,
\* and when run_resolve has returned they are as many.
C22_RowOrErrorNotBoth ==
    caller = "cli" =>
        /\ Len(rows) + Cardinality(LogLines("Error resolviendo")) <= Len(yielded)
        /\ exitCode = 0 =>
              Len(rows) + Cardinality(LogLines("Error resolviendo")) = Len(yielded)

\* C23: the hand-off of a worker never blocks: a queue never holds more
\* than its capacity of one item, a worker that comes to its q.put finds
\* its queue empty, an item enters a queue only by the one put of the
\* worker of that queue, after which the worker is over for good; so every
\* started worker whose lookup returns or raises comes to its end, also
\* when its slot was reported as a timeout and nobody reads its queue.
C23_HandOffNeverBlocks ==
    /\ [](\A s \in Src :
            /\ Len(q[s]) <= QueueMaxsize
            /\ wpc[s] = "put" => q[QueueOf(s)] = <<>> /\ ENABLED WorkerPut(s))
    /\ [][\A s \in Src :
            /\ Len(q'[s]) > Len(q[s]) =>
                  /\ wpc[s] = "put" /\ wpc'[s] = "done"
                  /\ Len(q'[s]) = 1
            /\ wpc[s] = "done" => wpc'[s] = "done"
         ]_vars
    /\ \A s \in Src :
          (wpc[s] # "idle" /\ beh[s].kind # "hang") ~> (wpc[s] = "done")

\* C23 witness: the request is over with all four slots reported as
\* timeouts; the four workers have since put their items, each into its
\* own queue, and ended.
C23_Witness ==
    /\ pc = "done"
    /\ \A s \in Src :
          /\ slot[s] = TimeoutDict
          /\ wpc[s] = "done"
          /\ q[s] = <<RunnerItem(s)>>

====
